---- MODULE Spec2Model ----
(***************************************************************************)
(* State-machine model of conquest/regioner.py: the flood-fill segmenter   *)
(* (floodfill, Regioner.execute) and the region registry of MapMaker       *)
(* (generate_masks, combine_masks, delete_masks, prune_masks,              *)
(* sort_regions, recalculate_region) together with the files they keep:    *)
(* blank.png, masks/<key>.png, data.json and the label overlays.           *)
(*                                                                         *)
(* Conventions.                                                            *)
(*  - An image is a record [size |-> <<w, h>>, px |-> [pixels -> value]]   *)
(*    with pixels <<x, y>>, 0 <= x < w, 0 <= y < h.  blank.png is taken to *)
(*    be a single-channel image, so convert("L") changes no pixel; a mask  *)
(*    is a two-level image: 0 is filled, 255 is not.                       *)
(*  - Python's None and a missing file are the empty tuple <<>>; a present *)
(*    optional value v is <<v>>.                                           *)
(*  - A dict is the sequence of its items in insertion order.              *)
(*    The keyword arguments Region keeps in .data, and a JSON object, are  *)
(*    functions from names to values.                                      *)
(*  - A pair of coordinates stands for a tuple or a list alike.            *)
(*  - Floats are exact rationals <<num, den>> in lowest terms, den > 0:    *)
(*    rounding of IEEE doubles is not modelled.                            *)
(*  - Path.rename replaces an existing target (POSIX).                     *)
(*  - Calls are serialized: one operation runs from call to return (or to  *)
(*    the exception that ends it) before the next one starts.              *)
(***************************************************************************)
EXTENDS Integers, Sequences, FiniteSets, TLC

\* ------------------------------------------------------------ bounds
ImgW == 10
ImgH == 10
MaxListLen == 2
FillW == 3
FillH == 2

\* ------------------------------------------------- program constants
ChunkDiv == 10
Black == 0
White == 255
MaskFilled == 0
MaskInit == 1

None == <<>>
Some(v) == <<v>>

Min(a, b) == IF a <= b THEN a ELSE b
Abs(a) == IF a >= 0 THEN a ELSE 0 - a

\* ------------------------------------------------------------ floats
RECURSIVE GCD(_, _)
GCD(a, b) == IF b = 0 THEN a ELSE GCD(b, a % b)

Rat(n, d) ==
    LET g == GCD(Abs(n), d) IN <<n \div g, d \div g>>

RatOfInt(n) == <<n, 1>>

RatAdd(a, b) == Rat(a[1] * b[2] + b[1] * a[2], a[2] * b[2])

RatDivInt(a, n) == Rat(a[1], a[2] * n)

RECURSIVE RatSum(_, _, _)
\* sum(xs[lo..hi]).  Python adds left to right; the sum is exact here, so the
\* grouping is free and the range is halved to keep the evaluation shallow
RatSum(xs, lo, hi) ==
    IF lo > hi THEN RatOfInt(0)
    ELSE IF lo = hi THEN xs[lo]
    ELSE LET mid == (lo + hi) \div 2
         IN  RatAdd(RatSum(xs, lo, mid), RatSum(xs, mid + 1, hi))

\* ------------------------------------------------------------ images
Pixels(size) == (0 .. size[1] - 1) \X (0 .. size[2] - 1)

\* Image.new(mode, size, color)
ImageNew(size, color) == [size |-> size, px |-> [p \in Pixels(size) |-> color]]

\* Image.new("1", size, color): a two-level image stores any non-zero colour
\* as 255
MaskNew(size, color) == ImageNew(size, IF color # 0 THEN White ELSE 0)

\* PixelAccess indexing: a negative index counts from the far edge, and an
\* index that is still out of range raises IndexError
PixelIndex(size, xy) ==
    << IF xy[1] < 0 THEN size[1] + xy[1] ELSE xy[1],
       IF xy[2] < 0 THEN size[2] + xy[2] ELSE xy[2] >>

HasPixel(image, xy) == PixelIndex(image.size, xy) \in DOMAIN image.px

GetPixel(image, xy) == image.px[PixelIndex(image.size, xy)]

\* pixel[xy] = value for every xy of the set at once
PutPixels(image, set, value) ==
    LET at == {PixelIndex(image.size, xy) : xy \in set}
    IN  [image EXCEPT !.px = [p \in DOMAIN image.px |->
                                 IF p \in at THEN value ELSE image.px[p]]]

\* PIL.ImageDraw._color_diff on single-channel values
color_diff(color1, color2) == Abs(color1 - color2)

\* ImageChops.logical_or, the operation a merge would use if filled were 255
logical_or(image1, image2) ==
    [size |-> image1.size,
     px |-> [p \in DOMAIN image1.px |->
                IF image1.px[p] # 0 \/ image2.px[p] # 0 THEN White ELSE 0]]

\* ImageChops.logical_and on two-level images: a pixel of the result is set
\* (255) where both operands are non-zero and clear (0) elsewhere
logical_and(image1, image2) ==
    [size |-> image1.size,
     px |-> [p \in DOMAIN image1.px |->
                IF image1.px[p] # 0 /\ image2.px[p] # 0 THEN White ELSE 0]]

\* -------------------------------------------------------- get_center
\* get_center(points), points a non-empty sequence of float pairs;
\* len(points) = 0 raises ZeroDivisionError, which callers test for first
get_center(points) ==
    LET x == [i \in 1 .. Len(points) |-> points[i][1]]
        y == [i \in 1 .. Len(points) |-> points[i][2]]
    IN  << RatDivInt(RatSum(x, 1, Len(x)), Len(points)),
           RatDivInt(RatSum(y, 1, Len(y)), Len(points)) >>

\* the pixels of a set as a sequence (iteration over a Python set: the order
\* is immaterial to every caller, row-major is taken)
PixelSeq(size, S) ==
    SelectSeq([i \in 1 .. size[1] * size[2] |->
                  <<(i - 1) % size[1], (i - 1) \div size[1]>>],
              LAMBDA p : p \in S)

RECURSIVE IntSum(_, _, _, _)
\* sum of the c-th coordinates of the points s[lo..hi] (integers: any grouping)
IntSum(s, c, lo, hi) ==
    IF lo > hi THEN 0
    ELSE IF lo = hi THEN s[lo][c]
    ELSE LET mid == (lo + hi) \div 2
         IN  IntSum(s, c, lo, mid) + IntSum(s, c, mid + 1, hi)

\* get_center as it would be if it returned the mean y before the mean x
get_center_of_pixels_swapped(size, S) ==
    LET s == PixelSeq(size, S)
    IN  << Rat(IntSum(s, 2, 1, Len(s)), Len(s)),
           Rat(IntSum(s, 1, 1, Len(s)), Len(s)) >>

\* get_center(points) for a non-empty set of pixels of an image: the sums are
\* sums of integers, each divided by len(points)
get_center_of_pixels(size, S) ==
    LET s == PixelSeq(size, S)
    IN  << Rat(IntSum(s, 1, 1, Len(s)), Len(s)),
           Rat(IntSum(s, 2, 1, Len(s)), Len(s)) >>

\* ----------------------------------------------------------- chunker
range(n) == [i \in 1 .. n |-> i - 1]

\* chunker(seq, size) for size > 0; size = 0 raises ValueError (range step 0)
chunker(seq, size) ==
    [i \in 1 .. ((Len(seq) + size - 1) \div size) |->
        SubSeq(seq, (i - 1) * size + 1, Min(i * size, Len(seq)))]

RECURSIVE Flatten(_)
Flatten(seqs) == IF seqs = <<>> THEN <<>> ELSE Head(seqs) \o Flatten(Tail(seqs))

\* --------------------------------------------------------- floodfill
\* the neighbours of a pixel if the diagonals counted
Adjacent_diagonal(xy) ==
    { <<xy[1] + dx, xy[2] + dy>> : dx \in -1 .. 1, dy \in -1 .. 1 } \ {xy}

Adjacent(xy) ==
    { <<xy[1] + 1, xy[2]>>, <<xy[1] - 1, xy[2]>>,
      <<xy[1], xy[2] + 1>>, <<xy[1], xy[2] - 1>> }

\* the test of lines 113-116 on the value p of a neighbour
Fillable(p, value, border, background, thresh) ==
    IF border = None THEN color_diff(p, background) <= thresh
    ELSE p \notin {value, border[1]}

\* The neighbours one pass of the while loop reads: adjacent to the edge, not
\* in full_edge, no negative coordinate, inside the image
Examined(image, edge, full_edge) ==
    { st \in UNION {Adjacent(xy) : xy \in edge} :
        /\ st \notin full_edge
        /\ st[1] >= 0 /\ st[2] >= 0
        /\ HasPixel(image, st) }

RECURSIVE fill_loop(_, _, _, _, _, _, _, _)
\* The while loop of floodfill, one pass per call.  Within a pass the order in
\* which the edge pixels are taken does not change new_edge: a pixel filled
\* earlier in the pass holds `value`, which Fillable rejects in both modes.
fill_loop(image, edge, full_edge, filled_pixels, value, border, background, thresh) ==
    IF edge = {} THEN [filled |-> filled_pixels, image |-> image]
    ELSE LET new_edge == { st \in Examined(image, edge, full_edge) :
                             Fillable(GetPixel(image, st), value, border,
                                      background, thresh) }
         IN  fill_loop(PutPixels(image, new_edge, value), new_edge, edge,
                       filled_pixels \cup edge, value, border, background, thresh)

RECURSIVE fill_loop_visited(_, _, _, _, _, _, _, _)
fill_loop_visited(image, edge, full_edge, filled_pixels, value, border, background, thresh) ==
    IF edge = {} THEN [filled |-> filled_pixels, image |-> image]
    ELSE LET seen == Examined(image, edge, full_edge)
             new_edge == { st \in seen :
                             Fillable(GetPixel(image, st), value, border,
                                      background, thresh) }
         IN  fill_loop_visited(PutPixels(image, new_edge, value), new_edge, edge,
                       filled_pixels \cup edge \cup seen, value, border,
                       background, thresh)

\* floodfill as it would be if it returned every pixel it looked at instead of
\* the pixels it filled
floodfill_visited(image, xy, value, border, thresh) ==
    IF ~HasPixel(image, xy) THEN [filled |-> {}, image |-> image]
    ELSE LET background == GetPixel(image, xy)
         IN  IF color_diff(value, background) <= thresh
             THEN [filled |-> {}, image |-> image]
             ELSE fill_loop_visited(PutPixels(image, {xy}, value), {xy}, {}, {},
                            value, border, background, thresh)

\* floodfill(image, xy, value, border, thresh): the set returned and the image
\* as the call leaves it
floodfill(image, xy, value, border, thresh) ==
    IF ~HasPixel(image, xy) THEN [filled |-> {}, image |-> image]
    ELSE LET background == GetPixel(image, xy)
         IN  IF color_diff(value, background) <= thresh
             THEN [filled |-> {}, image |-> image]
             ELSE fill_loop(PutPixels(image, {xy}, value), {xy}, {}, {},
                            value, border, background, thresh)

\* ------------------------------------------------------------- dicts
\* A dict is the sequence of its items [key, region] in insertion order.
Keys(d) == {d[i].key : i \in 1 .. Len(d)}

IndexOf(d, k) == CHOOSE i \in 1 .. Len(d) : d[i].key = k

\* d[k], for k in d
Get(d, k) == d[IndexOf(d, k)].region

\* d.pop(k), for k in d: the other items keep their order
Pop(d, k) ==
    LET i == IndexOf(d, k)
    IN  [j \in 1 .. Len(d) - 1 |-> IF j < i THEN d[j] ELSE d[j + 1]]

\* d[k] = r for k in d (the item keeps its place)
Replace(d, k, r) == [d EXCEPT ![IndexOf(d, k)].region = r]

Item(k, r) == [key |-> k, region |-> r]

RECURSIVE SeqMax(_, _)
SeqMax(d, k) ==
    IF k = 1 THEN d[1].key
    ELSE LET m == SeqMax(d, k - 1) IN IF d[k].key > m THEN d[k].key ELSE m

\* max(d.keys()), for non-empty d
MaxKeyOf(d) == SeqMax(d, Len(d))

\* ------------------------------------------------------------ Region
\* Region(center, weight, **kwargs): the keyword arguments land in .data
Region(center, weight, kwargs) == [center |-> center, weight |-> weight, data |-> kwargs]

\* Region.get_json: {"center": ..., "weight": ..., **self.data}, one object in
\* which an item of data replaces a field of the same name
get_json(r) ==
    [k \in {"center", "weight"} \cup DOMAIN r.data |->
        IF k \in DOMAIN r.data THEN r.data[k]
        ELSE IF k = "center" THEN r.center ELSE r.weight]

\* Region(**data) as it would be if the extra named attributes were dropped
Region_kwargs_dropped(data) == Region(data["center"], data["weight"], <<>>)

\* Region(**data): center and weight bind the parameters, every other item of
\* the object lands in kwargs
Region_kwargs(data) ==
    Region(data["center"], data["weight"],
           [k \in DOMAIN data \ {"center", "weight"} |-> data[k]])

\* an int key as json.dump writes it, and int(key) of load_data
str(num) == <<"str", num>>
int(key) == key[2]

\* ------------------------------------------------------------- files
MaskFile(num) == <<num, ".png">>
OldMaskFile(num) == <<num, "_old.png">>

NoFiles == [n \in {} |-> 0]

\* saving an image under a name, replacing what the name held
WriteFile(files, name, image) ==
    [n \in DOMAIN files \cup {name} |-> IF n = name THEN image ELSE files[n]]

\* Path.unlink
Unlink(files, name) == [n \in DOMAIN files \ {name} |-> files[n]]

\* Path.rename(target) of an existing file: the target name is replaced
Rename(files, name, target) ==
    [n \in (DOMAIN files \ {name}) \cup {target} |->
        IF n = target THEN files[name] ELSE files[n]]

\* numpy.where(arr == 0) of get_points_from_mask, on an opened mask
FilledPixels(mask) == {p \in DOMAIN mask.px : mask.px[p] = MaskFilled}

\* ------------------------------------------------ create_number_mask
\* the text drawn for a region: getattr(region, "name", str(region_num)).  A
\* Region object has the attributes center, weight and data only, so the
\* default is what getattr returns
getattr(object, attribute, default) ==
    IF attribute \in DOMAIN object THEN object[attribute] ELSE default

LabelText(region_num, region) == getattr(region, "name", str(region_num))

\* create_number_mask(regions, filepath, filename): what the three overlays
\* show, the text of each region at its centre, or <<>> when the base image is
\* missing and nothing is written
create_number_mask(regions, base) ==
    IF base = None THEN None
    ELSE Some([i \in 1 .. Len(regions) |->
                 [text |-> LabelText(regions[i].key, regions[i].region),
                  at |-> regions[i].region.center]])

\* ---------------------------------------------------------- Regioner
\* the order in which execute reads the pixels (lines 645-648)
ScanOrder(size) ==
    LET ys == Flatten(chunker(range(size[2]), size[2] \div ChunkDiv))
        xs == Flatten(chunker(range(size[1]), size[1] \div ChunkDiv))
    IN  [i \in 1 .. Len(ys) * Len(xs) |->
            << xs[((i - 1) % Len(xs)) + 1], ys[((i - 1) \div Len(xs)) + 1] >>]

\* Regioner.region_color and wall_color as generate_masks constructs them
region_color == None
wall_color == Black

\* the seed test of lines 651-653
IsSeed(base_img, xy) ==
    \/ region_color = None /\ GetPixel(base_img, xy) # wall_color
    \/ region_color # None /\ GetPixel(base_img, xy) = region_color[1]

\* the first pixel from the i-th of the scan on that passes the tests of lines
\* 649-653 (every pixel before it is skipped by the loop), 0 when none does
NextSeed(order, i, base_img, already_processed) ==
    LET c == {j \in i .. Len(order) :
                order[j] \notin already_processed /\ IsSeed(base_img, order[j])}
    IN  IF c = {} THEN 0 ELSE CHOOSE j \in c : \A k \in c : j <= k

RECURSIVE scan(_, _, _, _, _, _, _)
\* the body of the four nested loops from the i-th pixel of the scan on
scan(order, i, base_img, already_processed, mask_count, regions, files) ==
    LET j == NextSeed(order, i, base_img, already_processed)
    IN  IF j = 0
        THEN [regions |-> regions, files |-> files]
        ELSE LET f == floodfill(base_img, order[j], wall_color, Some(wall_color), 0)
             IN  IF f.filled = {}
                 THEN scan(order, j + 1, f.image, already_processed, mask_count,
                           regions, files)
                 ELSE scan(order, j + 1, f.image, already_processed \cup f.filled,
                           mask_count + 1,
                           Append(regions,
                                  Item(mask_count + 1,
                                       Region(get_center_of_pixels(base_img.size, f.filled),
                                              Cardinality(f.filled), <<>>))),
                           WriteFile(files, MaskFile(mask_count + 1),
                                     PutPixels(MaskNew(base_img.size, White),
                                               f.filled, MaskFilled)))

\* Regioner.execute on the map directory: what it returns (kind "False", "raise"
\* or "value"), and the masks directory and the overlays as it leaves them
execute(base, dir, overlays) ==
    IF base = None
    THEN [kind |-> "False", val |-> <<>>, masks |-> dir, numbers |-> overlays]
    ELSE LET size == base[1].size
             made == [exists |-> TRUE, files |-> dir.files]
         IN  IF size[2] \div ChunkDiv = 0 \/ size[1] \div ChunkDiv = 0
             THEN [kind |-> "raise", val |-> "ValueError", masks |-> made,
                   numbers |-> overlays]
             ELSE LET s == scan(ScanOrder(size), 1, base[1], {}, 0, <<>>, made.files)
                  IN  [kind |-> "value", val |-> s.regions,
                       masks |-> [made EXCEPT !.files = s.files],
                       numbers |-> create_number_mask(s.regions, base)]

\* ------------------------------------------------------------- state
VARIABLES
    blank_png,     \* <map>/blank.png: None or Some(image)
    masks,         \* <map>/masks: [exists, files], files from file name to image
    data_json,     \* <map>/data.json as save_data wrote it, None before
    numbers_png,   \* the label overlays as create_number_mask wrote them
    name,          \* ConquestMap.name
    custom,        \* ConquestMap.custom
    region_max,    \* ConquestMap.region_max
    regions,       \* ConquestMap.regions
    pc,            \* "idle" between calls, "returned" when a call has ended
    last           \* the call that has just ended, and the state it started in

vars == <<blank_png, masks, data_json, numbers_png, name, custom, region_max,
          regions, pc, last>>

\* ----------------------------------------------------------- inputs
Size == <<ImgW, ImgH>>

\* a white image of the given size with the given pixels black
Drawing(size, walls) ==
    [size |-> size, px |-> [p \in Pixels(size) |-> IF p \in walls THEN Black ELSE White]]

Column(x, ys) == {<<x, y>> : y \in ys}
Row(y, xs) == {<<x, y>> : x \in xs}

\* one region: no wall at all
ImgOpen == Drawing(Size, {})
\* two regions, left and right of a wall
ImgSplit == Drawing(Size, Column(4, 0 .. ImgH - 1))
\* three regions: one above a wall, two below it
ImgTee == Drawing(Size, Row(3, 0 .. ImgW - 1) \cup Column(5, 4 .. ImgH - 1))
\* no region: every pixel is wall
ImgSolid == Drawing(Size, Pixels(Size))
\* an image with fewer than ChunkDiv rows and columns
ImgTiny == Drawing(<<3, 3>>, {<<1, 1>>})

BaseImages == {ImgOpen, ImgSplit, ImgTee, ImgSolid, ImgTiny}

\* the key lists a caller passes: the keys in use, on disk or in the registry,
\* and one key that is neither
FileNums == {n[1] : n \in DOMAIN masks.files}
RECURSIVE SetMax(_)
SetMax(S) ==
    IF S = {} THEN 0
    ELSE LET x == CHOOSE x \in S : TRUE
             m == SetMax(S \ {x})
         IN  IF x > m THEN x ELSE m
KeyUniverse == 1 .. (SetMax(FileNums \cup Keys(regions)) + 1)
KeyLists == UNION {[1 .. n -> KeyUniverse] : n \in 0 .. MaxListLen}

\* --------------------------------------------------------- save_data
RECURSIVE SortItems(_)
\* sorted(dct.items()): insertion sort on the keys
SortItems(d) ==
    IF d = <<>> THEN <<>>
    ELSE LET rest == SortItems(Tail(d))
             lo == SelectSeq(rest, LAMBDA it : it.key < Head(d).key)
             hi == SelectSeq(rest, LAMBDA it : ~(it.key < Head(d).key))
         IN  lo \o <<Head(d)>> \o hi

\* the document save_data writes (json.dump with sort_keys=True)
save_data(nm, cust, rmax, regs) ==
    [name |-> nm, custom |-> cust, region_max |-> rmax,
     regions |-> LET d == SortItems(regs)
                 IN  [i \in 1 .. Len(d) |->
                        [key |-> str(d[i].key), value |-> get_json(d[i].region)]]]

\* ConquestMap.load_data on the document read from data.json: the four fields
\* it assigns ("regions" is in every document save_data writes)
load_data(data) ==
    [name |-> data.name, custom |-> data.custom, region_max |-> data.region_max,
     regions |-> [i \in 1 .. Len(data.regions) |->
                    Item(int(data.regions[i].key), Region_kwargs(data.regions[i].value))]]

\* ---------------------------------------------------------- outcomes
\* What a call leaves behind: how it ended (kind "value", "False", "None" or
\* "raise") with the value returned or the exception raised, the fields and
\* files it changed, and whether it got as far as save_data.
Outcome(kind, val, regs, rmax, files, nums, save) ==
    [kind |-> kind, val |-> val, regions |-> regs, region_max |-> rmax,
     masks |-> files, numbers |-> nums, save |-> save, collided |-> FALSE]

\* a call that ends before it changes anything
Untouched(kind, val) ==
    Outcome(kind, val, regions, region_max, masks, numbers_png, FALSE)

NoCall ==
    [op |-> "none", args |-> <<>>, kind |-> "none", val |-> <<>>, collided |-> FALSE,
     regions |-> <<>>, region_max |-> None, masks |-> [exists |-> FALSE, files |-> NoFiles]]

\* a call as it would end if save_data ran before the fields were assigned
Finish_early(op, args, out) ==
    /\ pc' = "returned"
    /\ regions' = out.regions
    /\ region_max' = out.region_max
    /\ masks' = out.masks
    /\ numbers_png' = out.numbers
    /\ data_json' = IF out.save
                    THEN Some(save_data(name, custom, region_max, regions))
                    ELSE data_json
    /\ last' = [op |-> op, args |-> args, kind |-> out.kind, val |-> out.val,
                collided |-> out.collided,
                regions |-> regions, region_max |-> region_max, masks |-> masks]
    /\ UNCHANGED <<blank_png, name, custom>>

\* the call op(args) ends with outcome out
Finish(op, args, out) ==
    /\ pc' = "returned"
    /\ regions' = out.regions
    /\ region_max' = out.region_max
    /\ masks' = out.masks
    /\ numbers_png' = out.numbers
    /\ data_json' = IF out.save
                    THEN Some(save_data(name, custom, out.region_max, out.regions))
                    ELSE data_json
    /\ last' = [op |-> op, args |-> args, kind |-> out.kind, val |-> out.val,
                collided |-> out.collided,
                regions |-> regions, region_max |-> region_max, masks |-> masks]
    /\ UNCHANGED <<blank_png, name, custom>>

\* ---------------------------------------------------- generate_masks
generate_masks ==
    LET e == execute(blank_png, masks, numbers_png)
    IN  IF e.kind # "value"
        THEN Outcome(e.kind, e.val, regions, region_max, e.masks, e.numbers, FALSE)
        ELSE IF e.val = <<>>
        THEN Outcome("value", e.val, regions, region_max, e.masks, e.numbers, FALSE)
        ELSE Outcome("value", e.val, e.val, Some(Len(e.val) + 1), e.masks,
                     e.numbers, TRUE)

\* The map is segmented once, before anything else is done to it: the call is
\* taken while no segmentation has set region_max.
GenerateMasks ==
    /\ pc = "idle"
    /\ region_max = None
    /\ Finish("generate_masks", <<>>, generate_masks)

\* ------------------------------------------------ _img_combine_masks
RECURSIVE img_combine_loop(_, _, _, _, _)
\* the for loop of lines 226-236 from the i-th key of mask_list on; opening
\* the mask of a key that has no file raises FileNotFoundError
img_combine_loop(mask_list, i, lowest_num, eliminated_masks, mask) ==
    IF i > Len(mask_list)
    THEN [kind |-> "value", lowest |-> lowest_num[1],
          eliminated |-> eliminated_masks, mask |-> mask]
    ELSE LET mask_num == mask_list[i]
             low == IF lowest_num = None THEN Some(mask_num)
                    ELSE IF mask_num < lowest_num[1] THEN Some(mask_num)
                    ELSE lowest_num
             elim == IF lowest_num = None THEN eliminated_masks
                     ELSE IF mask_num < lowest_num[1]
                          THEN Append(eliminated_masks, lowest_num[1])
                          ELSE Append(eliminated_masks, mask_num)
         IN  IF MaskFile(mask_num) \notin DOMAIN masks.files
             THEN [kind |-> "raise", lowest |-> 0, eliminated |-> <<>>, mask |-> mask]
             ELSE img_combine_loop(mask_list, i + 1, low, elim,
                                   logical_and(mask, masks.files[MaskFile(mask_num)]))

\* ConquestMap._img_combine_masks(mask_list): (lowest_num, eliminated_masks,
\* mask), kind "False" for the (False, None, None) returns
img_combine_masks(mask_list) ==
    IF Len(mask_list) < 2 \/ blank_png = None \/ ~masks.exists
    THEN [kind |-> "False", lowest |-> 0, eliminated |-> <<>>, mask |-> <<>>]
    ELSE img_combine_loop(mask_list, 1, None, <<>>,
                          MaskNew(blank_png[1].size, MaskInit))

\* ------------------------------------------------------ combine_masks
RECURSIVE PopAll(_, _, _)
\* for key in keys: regs.pop(key), from the i-th key on: the dict as the loop
\* leaves it, and whether a pop raised KeyError (which ends the loop)
PopAll(regs, keys, i) ==
    IF i > Len(keys) THEN [raised |-> FALSE, regions |-> regs]
    ELSE IF keys[i] \notin Keys(regs) THEN [raised |-> TRUE, regions |-> regs]
    ELSE PopAll(Pop(regs, keys[i]), keys, i + 1)

Elems(seq) == {seq[i] : i \in 1 .. Len(seq)}

\* [x for _ in range(n)]
Repeat(x, n) == [i \in 1 .. n |-> x]

\* the sum as it would be if the eliminated weights were left out
SumWeights_dropped(rs, k) == 0

RECURSIVE SumWeights(_, _)
SumWeights(rs, k) == IF k = 0 THEN 0 ELSE SumWeights(rs, k - 1) + rs[k].weight

\* self.region_max in keys
MaxIn(rmax, keys) == rmax # None /\ rmax[1] \in Elems(keys)

\* lines 433-444 of combine_masks and 448-461 of delete_masks share this tail:
\* pop the keys, recompute region_max when it was among them, redraw the
\* labels, save.  on_key_error is how a KeyError of pop ends the call.
PopAndSave(regs, files, keys, on_key_error, val) ==
    LET p == PopAll(regs, keys, 1)
    IN  IF p.raised
        THEN Outcome(on_key_error, "KeyError", p.regions, region_max, files,
                     numbers_png, FALSE)
        ELSE IF MaxIn(region_max, keys) /\ p.regions = <<>>
        THEN Outcome("raise", "ValueError", p.regions, region_max, files,
                     numbers_png, FALSE)
        ELSE Outcome("value", val, p.regions,
                     IF MaxIn(region_max, keys) THEN Some(MaxKeyOf(p.regions))
                     ELSE region_max,
                     files, create_number_mask(p.regions, blank_png), TRUE)

\* the merge as it would be if each centre counted once, whatever its weight
Merged_unweighted(lowest_region, elim_regions) ==
    LET points == [i \in 1 .. Len(elim_regions) |-> elim_regions[i].center]
                  \o <<lowest_region.center>>
    IN  [lowest_region EXCEPT
            !.center = get_center(points),
            !.weight = lowest_region.weight + SumWeights(elim_regions, Len(elim_regions))]

\* lines 426-431: the surviving region with its new centre and weight
Merged(lowest_region, elim_regions) ==
    LET weighted_points ==
            Flatten([i \in 1 .. Len(elim_regions) |->
                        Repeat(elim_regions[i].center, elim_regions[i].weight)])
            \o Repeat(lowest_region.center, lowest_region.weight)
    IN  [lowest_region EXCEPT
            !.center = get_center(weighted_points),
            !.weight = lowest_region.weight + SumWeights(elim_regions, Len(elim_regions))]

\* combine_masks as it would be without the loop that pops the eliminated keys
combine_masks_keeping(mask_list) ==
    LET c == img_combine_masks(mask_list)
    IN  IF c.kind = "raise" THEN Untouched("raise", "FileNotFoundError")
        ELSE IF c.kind = "False" THEN Untouched("False", FALSE)
        ELSE IF ~(Elems(c.eliminated) \cup {c.lowest} \subseteq Keys(regions))
        THEN Untouched("False", FALSE)
        ELSE LET elim_regions == [i \in 1 .. Len(c.eliminated) |->
                                     Get(regions, c.eliminated[i])]
                 lowest_region == Get(regions, c.lowest)
                 saved == [masks EXCEPT
                             !.files = WriteFile(masks.files, MaskFile(c.lowest), c.mask)]
             IN  PopAndSave(Replace(regions, c.lowest,
                                    Merged(lowest_region, elim_regions)),
                            saved, <<>>, "raise", c.lowest)

\* MapMaker.combine_masks(mask_list)
combine_masks(mask_list) ==
    LET c == img_combine_masks(mask_list)
    IN  IF c.kind = "raise" THEN Untouched("raise", "FileNotFoundError")
        ELSE IF c.kind = "False" THEN Untouched("False", FALSE)
        ELSE IF ~(Elems(c.eliminated) \cup {c.lowest} \subseteq Keys(regions))
        THEN Untouched("False", FALSE)
        ELSE LET elim_regions == [i \in 1 .. Len(c.eliminated) |->
                                     Get(regions, c.eliminated[i])]
                 lowest_region == Get(regions, c.lowest)
                 saved == [masks EXCEPT
                             !.files = WriteFile(masks.files, MaskFile(c.lowest), c.mask)]
             IN  PopAndSave(Replace(regions, c.lowest,
                                    Merged(lowest_region, elim_regions)),
                            saved, c.eliminated, "raise", c.lowest)

CombineMasks ==
    /\ pc = "idle"
    /\ \E mask_list \in KeyLists :
        Finish("combine_masks", mask_list, combine_masks(mask_list))

\* ------------------------------------------------------- delete_masks
\* MapMaker.delete_masks(mask_list): a KeyError of pop is caught and False is
\* returned
delete_masks(mask_list) ==
    LET o == PopAndSave(regions, masks, mask_list, "False", mask_list)
    IN  IF o.kind = "False" THEN [o EXCEPT !.val = FALSE] ELSE o

DeleteMasks ==
    /\ pc = "idle"
    /\ \E mask_list \in KeyLists :
        Finish("delete_masks", mask_list, delete_masks(mask_list))

\* ------------------------------------------------ recalculate_region
\* get_points_from_mask as it would be if it collected the pixels that are not
\* filled
get_points_from_mask_unfilled(region) ==
    LET mask == masks.files[MaskFile(region)]
    IN  {p \in DOMAIN mask.px : mask.px[p] # MaskFilled}

\* MapMaker.get_points_from_mask(region), for a region whose mask file exists
get_points_from_mask(region) == FilledPixels(masks.files[MaskFile(region)])

RECURSIVE recalculate_loop(_, _, _)
\* either loop of recalculate_region from the i-th key on: self.regions[num]
\* raises KeyError, opening a mask that has no file FileNotFoundError, and
\* get_center of no points ZeroDivisionError; the regions done before stay done
recalculate_loop(regs, nums, i) ==
    IF i > Len(nums) THEN [raised |-> None, regions |-> regs]
    ELSE IF nums[i] \notin Keys(regs)
    THEN [raised |-> Some("KeyError"), regions |-> regs]
    ELSE IF MaskFile(nums[i]) \notin DOMAIN masks.files
    THEN [raised |-> Some("FileNotFoundError"), regions |-> regs]
    ELSE LET points == get_points_from_mask(nums[i])
             size == masks.files[MaskFile(nums[i])].size
         IN  IF points = {}
             THEN [raised |-> Some("ZeroDivisionError"), regions |-> regs]
             ELSE recalculate_loop(
                      Replace(regs, nums[i],
                              [Get(regs, nums[i]) EXCEPT
                                  !.center = get_center_of_pixels(size, points),
                                  !.weight = Cardinality(points)]),
                      nums, i + 1)

\* MapMaker.recalculate_region(regions): arg is None or Some(list of keys)
recalculate_region(arg) ==
    LET nums == IF arg = None THEN [i \in 1 .. Len(regions) |-> regions[i].key]
                ELSE arg[1]
        r == recalculate_loop(regions, nums, 1)
    IN  IF r.raised # None
        THEN Outcome("raise", r.raised[1], r.regions, region_max, masks,
                     numbers_png, FALSE)
        ELSE Outcome("None", <<>>, r.regions, region_max, masks, numbers_png, TRUE)

RecalculateRegion ==
    /\ pc = "idle"
    /\ \E arg \in {None} \cup {Some(l) : l \in KeyLists} :
        Finish("recalculate_region", arg, recalculate_region(arg))

\* ------------------------------------------------------- sort_regions
\* points.sort(key=lambda x: x[1]); points[0][1]: the least y of the points
TopY(points) == CHOOSE y \in {p[2] : p \in points} : \A q \in points : y <= q[2]

\* the ordering of a list of entries left as it is
StableSort_unsorted(l) == l

RECURSIVE StableSort(_)
\* list.sort(key=lambda x: x[0][1]) on entries [y, num]: ascending y, entries
\* of equal y in the order they had
StableSort(l) ==
    IF l = <<>> THEN <<>>
    ELSE LET rest == StableSort(Tail(l))
             lo == SelectSeq(rest, LAMBDA e : e.y < Head(l).y)
             hi == SelectSeq(rest, LAMBDA e : ~(e.y < Head(l).y))
         IN  lo \o <<Head(l)>> \o hi

RECURSIVE RenameAll(_, _, _)
\* old.rename(new) for each pair [old, new] of the sequence from the i-th on
RenameAll(files, pairs, i) ==
    IF i > Len(pairs) THEN files
    ELSE RenameAll(Rename(files, pairs[i].old, pairs[i].new), pairs, i + 1)

\* lines 509-542: the fast ordering, the two rename passes and the save
sort_fast ==
    IF \E i \in 1 .. Len(regions) : MaskFile(regions[i].key) \notin DOMAIN masks.files
    THEN Untouched("raise", "FileNotFoundError")
    ELSE IF \E i \in 1 .. Len(regions) : get_points_from_mask(regions[i].key) = {}
    THEN Untouched("raise", "IndexError")
    ELSE LET sorted == StableSort([i \in 1 .. Len(regions) |->
                          [y |-> TopY(get_points_from_mask(regions[i].key)),
                           num |-> regions[i].key]])
             pass1 == RenameAll(masks.files,
                          [i \in 1 .. Len(regions) |->
                              [old |-> MaskFile(regions[i].key),
                               new |-> OldMaskFile(regions[i].key)]], 1)
             pass2 == RenameAll(pass1,
                          [new_num \in 1 .. Len(sorted) |->
                              [old |-> OldMaskFile(sorted[new_num].num),
                               new |-> MaskFile(new_num)]], 1)
             new_regions == [new_num \in 1 .. Len(sorted) |->
                                Item(new_num, Get(regions, sorted[new_num].num))]
         IN  Outcome("None", <<>>, new_regions, region_max,
                     [masks EXCEPT !.files = pass2], numbers_png, TRUE)

\* sort_regions as it would be if the slow ordering fell back to the fast one
sort_regions_fallback(fast_sort) == sort_fast

\* MapMaker.sort_regions(fast_sort)
sort_regions(fast_sort) ==
    IF ~fast_sort THEN Untouched("raise", "NotImplementedError")
    ELSE sort_fast

SortRegions ==
    /\ pc = "idle"
    /\ \E fast_sort \in BOOLEAN :
        Finish("sort_regions", fast_sort, sort_regions(fast_sort))

\* -------------------------------------------------------- prune_masks
RECURSIVE prune_renames(_, _, _, _)
\* Step 2 from the newnum-th item of self.regions on: the files as the renames
\* leave them, whether a rename found its source missing (FileNotFoundError),
\* and whether a rename found a file already at its target name
prune_renames(regs, newnum, files, collided) ==
    IF newnum > Len(regs) THEN [raised |-> FALSE, files |-> files, collided |-> collided]
    ELSE LET num == regs[newnum].key
         IN  IF newnum = num THEN prune_renames(regs, newnum + 1, files, collided)
             ELSE IF MaskFile(num) \notin DOMAIN files
             THEN [raised |-> TRUE, files |-> files, collided |-> collided]
             ELSE prune_renames(regs, newnum + 1,
                                Rename(files, MaskFile(num), MaskFile(newnum)),
                                collided \/ MaskFile(newnum) \in DOMAIN files)

\* prune_masks as it would be without Step 1
prune_step1_skipped(files) == files

\* Step 1: the files that stay, those whose stem is a key of self.regions
prune_step1(files) ==
    [n \in {m \in DOMAIN files : m[1] \in Keys(regions)} |-> files[n]]

\* MapMaker.prune_masks().  iterdir raises FileNotFoundError when there is no
\* masks directory; int(mask.stem) raises ValueError on a name such as
\* <num>_old.png, part-way through Step 1 (no such name outlasts the
\* sort_regions call that made it, and the files are left as they were here)
prune_masks ==
    IF ~masks.exists THEN Untouched("raise", "FileNotFoundError")
    ELSE IF \E n \in DOMAIN masks.files : n[2] # ".png"
    THEN Untouched("raise", "ValueError")
    ELSE LET kept == prune_step1(masks.files)
             pruned == {n[1] : n \in DOMAIN masks.files \ DOMAIN kept}
             r == prune_renames(regions, 1, kept, FALSE)
             new_regions == [newnum \in 1 .. Len(regions) |->
                                Item(newnum, regions[newnum].region)]
             left == [masks EXCEPT !.files = r.files]
         IN  IF r.raised
             THEN [Outcome("raise", "FileNotFoundError", regions, region_max,
                           left, numbers_png, FALSE)
                     EXCEPT !.collided = r.collided]
             ELSE IF new_regions = <<>>
             THEN [Outcome("raise", "ValueError", new_regions, region_max,
                           left, numbers_png, FALSE)
                     EXCEPT !.collided = r.collided]
             ELSE [Outcome("value", pruned, new_regions,
                           Some(MaxKeyOf(new_regions)), left, numbers_png, TRUE)
                     EXCEPT !.collided = r.collided]

PruneMasks ==
    /\ pc = "idle"
    /\ Finish("prune_masks", <<>>, prune_masks)

\* the caller takes the result; the next call can start
Return ==
    /\ pc = "returned"
    /\ pc' = "idle"
    /\ last' = NoCall
    /\ UNCHANGED <<blank_png, masks, data_json, numbers_png, name, custom,
                   region_max, regions>>

Init ==
    /\ blank_png \in {None} \cup {Some(im) : im \in BaseImages}
    /\ masks = [exists |-> FALSE, files |-> NoFiles]
    /\ data_json = None
    /\ numbers_png = None
    /\ name = None
    /\ custom = None
    /\ region_max = None
    /\ regions = <<>>
    /\ pc = "idle"
    /\ last = NoCall

Next ==
    \/ GenerateMasks
    \/ CombineMasks
    \/ DeleteMasks
    \/ RecalculateRegion
    \/ SortRegions
    \/ PruneMasks
    \/ Return

Spec == Init /\ [][Next]_vars

\* --------------------------------------- merges over distinct keys
\* The calls one after another, each awaited before the next, with every
\* combine_masks given a list that names no key twice.
CombineDistinct ==
    /\ pc = "idle"
    /\ \E mask_list \in KeyLists :
        /\ \A i, j \in 1 .. Len(mask_list) : i # j => mask_list[i] # mask_list[j]
        /\ Finish("combine_masks", mask_list, combine_masks(mask_list))

NextSerial ==
    \/ GenerateMasks
    \/ CombineDistinct
    \/ DeleteMasks
    \/ RecalculateRegion
    \/ SortRegions
    \/ PruneMasks
    \/ Return

SpecSerial == Init /\ [][NextSerial]_vars

\* ------------------------------------------- segmentation on its own
\* Images for the segmentation alone: a cross of walls that cuts the image in
\* four, with a pixel in the middle of each arm and the pixel where the arms
\* meet left open (white or grey) or walled, in every combination.
CrossX == ImgW \div 2
CrossY == ImgH \div 2
Cross == Column(CrossX, 0 .. ImgH - 1) \cup Row(CrossY, 0 .. ImgW - 1)
Doors == << <<CrossX, CrossY>>, <<CrossX, 1>>, <<CrossX, ImgH - 2>>,
            <<1, CrossY>>, <<ImgW - 2, CrossY>> >>
Grey == (Black + White) \div 2

CrossImage(paint) ==
    [size |-> Size,
     px |-> [p \in Pixels(Size) |->
                IF \E d \in 1 .. Len(Doors) : Doors[d] = p
                THEN paint[CHOOSE d \in 1 .. Len(Doors) : Doors[d] = p]
                ELSE IF p \in Cross THEN Black ELSE White]]

ScanImages == {CrossImage(paint) : paint \in [1 .. Len(Doors) -> {Black, Grey, White}]}

InitScan ==
    /\ blank_png \in {Some(im) : im \in ScanImages}
    /\ masks = [exists |-> FALSE, files |-> NoFiles]
    /\ data_json = None
    /\ numbers_png = None
    /\ name = None
    /\ custom = None
    /\ region_max = None
    /\ regions = <<>>
    /\ pc = "idle"
    /\ last = NoCall

NextScan ==
    \/ GenerateMasks
    \/ Return

SpecScan == InitScan /\ [][NextScan]_vars

\* ------------------------------------------------ masks edited by hand
\* Between two calls a mask file can be edited outside the program (the case
\* recalculate_region exists for): one pixel that no mask file has filled, a
\* wall pixel of blank.png, is filled in one mask file.  EditPixels are the
\* pixels tried.
EditPixels == {<<5, 3>>, <<4, 5>>}

EditMask ==
    /\ pc = "idle"
    /\ blank_png # None
    /\ \E n \in DOMAIN masks.files : \E p \in EditPixels \cap DOMAIN masks.files[n].px :
          /\ blank_png[1].px[p] = wall_color
          /\ \A m \in DOMAIN masks.files : masks.files[m].px[p] # MaskFilled
          /\ masks' = [masks EXCEPT
                         !.files = WriteFile(masks.files, n,
                                             PutPixels(masks.files[n], {p}, MaskFilled))]
    /\ UNCHANGED <<blank_png, data_json, numbers_png, name, custom, region_max,
                   regions, pc, last>>

\* the calls that read the masks back, with the deletions that leave gaps in
\* the keys
NextEdit ==
    \/ GenerateMasks
    \/ DeleteMasks
    \/ RecalculateRegion
    \/ SortRegions
    \/ EditMask
    \/ Return

SpecEdit == Init /\ [][NextEdit]_vars

\* ------------------------------------------------- save and load alone
\* Registries for save_data and load_data on their own: keys in any insertion
\* order, centres that are not whole numbers, regions with and without extra
\* named attributes.
LoadCenters == { <<RatOfInt(0), RatOfInt(0)>>, <<Rat(1, 2), Rat(7, 3)>> }
LoadWeights == {1, 5}
LoadKwargs == { <<>>, [owner |-> "red"] }
LoadRegions ==
    {Region(c, w, d) : c \in LoadCenters, w \in LoadWeights, d \in LoadKwargs}
LoadKeys == 1 .. MaxListLen + 1
LoadRegistries ==
    UNION { { [i \in 1 .. n |-> Item(ks[i], rs[i])] :
                ks \in {f \in [1 .. n -> LoadKeys] :
                          \A i, j \in 1 .. n : i # j => f[i] # f[j]},
                rs \in [1 .. n -> LoadRegions] } : n \in 0 .. MaxListLen }

InitLoad ==
    /\ blank_png = None
    /\ masks = [exists |-> FALSE, files |-> NoFiles]
    /\ data_json = None
    /\ numbers_png = None
    /\ name \in {None, Some("world")}
    /\ custom \in {None, Some(TRUE)}
    /\ region_max \in {None, Some(MaxListLen + 1)}
    /\ regions \in LoadRegistries
    /\ pc = "idle"
    /\ last = NoCall

\* MapMaker.save_data called on its own
SaveData ==
    /\ pc = "idle"
    /\ pc' = "returned"
    /\ data_json' = Some(save_data(name, custom, region_max, regions))
    /\ last' = [op |-> "save_data", args |-> <<name, custom>>, kind |-> "None",
                val |-> <<>>, collided |-> FALSE,
                regions |-> regions, region_max |-> region_max, masks |-> masks]
    /\ UNCHANGED <<blank_png, masks, numbers_png, name, custom, region_max, regions>>

\* ConquestMap.load_data: open() raises FileNotFoundError when data.json was
\* never written
LoadData ==
    /\ pc = "idle"
    /\ pc' = "returned"
    /\ IF data_json = None
       THEN /\ last' = [op |-> "load_data", args |-> <<name, custom>>,
                        kind |-> "raise", val |-> "FileNotFoundError",
                        collided |-> FALSE, regions |-> regions,
                        region_max |-> region_max, masks |-> masks]
            /\ UNCHANGED <<name, custom, region_max, regions>>
       ELSE LET data == load_data(data_json[1])
            IN  /\ name' = data.name
                /\ custom' = data.custom
                /\ region_max' = data.region_max
                /\ regions' = data.regions
                /\ last' = [op |-> "load_data", args |-> <<name, custom>>,
                            kind |-> "None", val |-> <<>>, collided |-> FALSE,
                            regions |-> regions, region_max |-> region_max,
                            masks |-> masks]
    /\ UNCHANGED <<blank_png, masks, data_json, numbers_png>>

NextLoad ==
    \/ SaveData
    \/ LoadData
    \/ Return

SpecLoad == InitLoad /\ [][NextLoad]_vars

\* ------------------------------------------------- labels on their own
\* Registries for the label overlays: regions with no extra attribute, with a
\* name and with an attribute that is not a name, in memory from the start or
\* read back from data.json.  A name is a string, told from the others by its
\* number.
LabelKwargs == { <<>>, [name |-> <<"name", 1>>], [owner |-> <<"name", 2>>] }
LabelRegions == {Region(<<RatOfInt(2), RatOfInt(3)>>, 1, d) : d \in LabelKwargs}
LabelRegistries ==
    UNION { { [i \in 1 .. n |-> Item(ks[i], rs[i])] :
                ks \in {f \in [1 .. n -> LoadKeys] :
                          \A i, j \in 1 .. n : i # j => f[i] # f[j]},
                rs \in [1 .. n -> LabelRegions] } : n \in 0 .. MaxListLen }

InitLabel ==
    /\ blank_png \in {None, Some(ImgOpen)}
    /\ masks = [exists |-> FALSE, files |-> NoFiles]
    /\ data_json = None
    /\ numbers_png = None
    /\ name = None
    /\ custom = None
    /\ region_max = None
    /\ regions \in LabelRegistries
    /\ pc = "idle"
    /\ last = NoCall

\* ConquestMap.create_number_mask: the overlays are redrawn from self.regions;
\* False when blank.png is missing, True otherwise
CreateNumberMask ==
    /\ pc = "idle"
    /\ Finish("create_number_mask", <<>>,
              IF blank_png = None THEN Untouched("False", FALSE)
              ELSE Outcome("value", TRUE, regions, region_max, masks,
                           create_number_mask(regions, blank_png), FALSE))

NextLabel ==
    \/ SaveData
    \/ LoadData
    \/ CreateNumberMask
    \/ Return

SpecLabel == InitLabel /\ [][NextLabel]_vars

\* ------------------------------------------------- composite_regions
\* a single-channel value pasted into an RGB image
convert_RGB(v) == <<v, v, v>>

\* Image.composite with the two images exchanged
composite_swapped(image1, image2, mask) ==
    [size |-> image2.size,
     px |-> [p \in DOMAIN image2.px |->
                IF mask.px[p] # 0 THEN image2.px[p] ELSE convert_RGB(image1.px[p])]]

\* Image.composite(image1, image2, mask): a copy of image2 with image1 pasted
\* where the mask is set; image1 is converted to the mode of image2
composite(image1, image2, mask) ==
    [size |-> image2.size,
     px |-> [p \in DOMAIN image2.px |->
                IF mask.px[p] # 0 THEN convert_RGB(image1.px[p]) ELSE image2.px[p]]]

RECURSIVE composite_loop(_, _, _)
\* the for loop of lines 28-36 from the i-th region on; opening the mask of a
\* region that has no file raises FileNotFoundError
composite_loop(regs, i, combined_mask) ==
    IF i > Len(regs) THEN [raised |-> FALSE, mask |-> combined_mask]
    ELSE IF MaskFile(regs[i]) \notin DOMAIN masks.files
    THEN [raised |-> TRUE, mask |-> combined_mask]
    ELSE LET mask == masks.files[MaskFile(regs[i])]
         IN  composite_loop(regs, i + 1,
                            IF combined_mask = None THEN Some(mask)
                            ELSE Some(logical_and(combined_mask[1], mask)))

\* composite_regions(im, regions, color, masks_path)
composite_regions(im, regs, color) ==
    LET im2 == ImageNew(im.size, color)
        c == composite_loop(regs, 1, None)
    IN  IF c.raised THEN Untouched("raise", "FileNotFoundError")
        ELSE IF c.mask = None THEN Untouched("None", <<>>)
        ELSE Untouched("value", composite(im, im2, c.mask[1]))

\* the colours asked for: red, as sample_region does, and blue
HighlightColors == { <<255, 0, 0>>, <<0, 0, 255>> }

\* the caller opens blank.png and passes it with a list of keys
CompositeRegions ==
    /\ pc = "idle"
    /\ blank_png # None
    /\ \E regs \in KeyLists : \E color \in HighlightColors :
          Finish("composite_regions", [regions |-> regs, color |-> color],
                 composite_regions(blank_png[1], regs, color))

NextView ==
    \/ GenerateMasks
    \/ CombineMasks
    \/ DeleteMasks
    \/ CompositeRegions
    \/ Return

SpecView == Init /\ [][NextView]_vars

\* ------------------------------------------------- floodfill alone
\* Grids for floodfill on its own: every black-and-white grid of FillW by
\* FillH pixels, seeds on the grid and one step outside it on every side,
\* black or grey as the fill value, with and without a border value.
FillGrids ==
    { [size |-> <<FillW, FillH>>, px |-> px] :
        px \in [Pixels(<<FillW, FillH>>) -> {Black, White}] }
FillSeeds == (-1 .. FillW) \X (-1 .. FillH)
FillValues == {Black, Grey}
FillModes ==
    { [border |-> None, thresh |-> 0], [border |-> None, thresh |-> 128],
      [border |-> Some(Black), thresh |-> 0], [border |-> Some(White), thresh |-> 0],
      [border |-> Some(Black), thresh |-> 128] }

InitFill ==
    /\ blank_png \in {Some(g) : g \in FillGrids}
    /\ masks = [exists |-> FALSE, files |-> NoFiles]
    /\ data_json = None
    /\ numbers_png = None
    /\ name = None
    /\ custom = None
    /\ region_max = None
    /\ regions = <<>>
    /\ pc = "idle"
    /\ last = NoCall

\* floodfill(image, xy, value, border, thresh) on a copy of the grid: the set
\* returned and the copy as the call leaves it
FloodFill ==
    /\ pc = "idle"
    /\ \E xy \in FillSeeds : \E value \in FillValues : \E mode \in FillModes :
          Finish("floodfill",
                 [xy |-> xy, value |-> value, border |-> mode.border,
                  thresh |-> mode.thresh],
                 Untouched("value", floodfill(blank_png[1], xy, value, mode.border,
                                              mode.thresh)))

NextFill ==
    \/ FloodFill
    \/ Return

SpecFill == InitFill /\ [][NextFill]_vars

\* ============================================================ claims
Returned(op) == pc = "returned" /\ last.op = op

\* the filled pixels of the mask file of a key, now and when the call started
FilledNow(k) == FilledPixels(masks.files[MaskFile(k)])
FilledBefore(k) == FilledPixels(last.masks.files[MaskFile(k)])

\* C1: in every reachable state every key of `regions` has a mask file
\* <key>.png, and no pixel is filled in the mask files of two different keys
\* of `regions`.
RegistryMasksDisjoint ==
    /\ \A i \in 1 .. Len(regions) : MaskFile(regions[i].key) \in DOMAIN masks.files
    /\ \A i, j \in 1 .. Len(regions) :
          i # j => FilledNow(regions[i].key) \cap FilledNow(regions[j].key) = {}

\* a merge has returned its surviving key and left two or more regions
RegistryMasksDisjointWitness ==
    /\ Returned("combine_masks") /\ last.kind = "value"
    /\ Len(regions) >= 2
    /\ Len(regions) < Len(last.regions)

\* C2: the masks one Regioner.execute run saves are pairwise disjoint: no
\* pixel is filled in the masks of two different keys of the mapping returned.
ExecuteMasksDisjoint ==
    Returned("generate_masks") /\ last.kind = "value" =>
        \A i, j \in 1 .. Len(last.val) :
            i # j => FilledNow(last.val[i].key) \cap FilledNow(last.val[j].key) = {}

\* a run that found three regions or more
ExecuteMasksDisjointWitness ==
    Returned("generate_masks") /\ last.kind = "value" /\ Len(last.val) >= 3

\* C3: delete_masks with a key that is absent from the registry returns False
\* and leaves regions and region_max as they were, wherever the key stands in
\* the list.
DeleteAbsentLeavesRegistry ==
    Returned("delete_masks")
    /\ (\E i \in 1 .. Len(last.args) : last.args[i] \notin Keys(last.regions)) =>
        /\ last.kind = "False"
        /\ regions = last.regions
        /\ region_max = last.region_max

\* the least key of a non-empty list
Lowest(keys) == CHOOSE k \in Elems(keys) : \A m \in Elems(keys) : k <= m

\* the keys of the list are all in the registry and all have a mask file, at
\* the start of the call
AllPresent(keys) ==
    \A i \in 1 .. Len(keys) :
        /\ keys[i] \in Keys(last.regions)
        /\ MaskFile(keys[i]) \in DOMAIN last.masks.files

Distinct(keys) == \A i, j \in 1 .. Len(keys) : i # j => keys[i] # keys[j]

\* C4: combine_masks of two or more keys, all present with mask files, returns
\* the lowest key of the list; that key is still in the registry, every other
\* key of the list is not, and the regions not named keep their records.
CombineKeepsLowest ==
    Returned("combine_masks") /\ Len(last.args) >= 2 /\ AllPresent(last.args) =>
        /\ last.kind = "value"
        /\ last.val = Lowest(last.args)
        /\ last.val \in Keys(regions)
        /\ \A k \in Elems(last.args) \ {last.val} : k \notin Keys(regions)
        /\ \A k \in Keys(last.regions) \ Elems(last.args) :
              k \in Keys(regions) /\ Get(regions, k) = Get(last.regions, k)

\* C5 as stated: after a successful combine_masks the mask saved under the
\* surviving key has a pixel filled only if every input key's mask had it
\* filled (the intersection of the inputs).
CombineMaskIsIntersection ==
    Returned("combine_masks") /\ last.kind = "value" =>
        \A p \in FilledNow(last.val) :
            \A i \in 1 .. Len(last.args) : p \in FilledBefore(last.args[i])

\* C5 amended: after a successful combine_masks the mask saved under the
\* surviving key has a pixel filled if and only if at least one input key's
\* mask had it filled (the union of the inputs).
CombineMaskIsUnion ==
    Returned("combine_masks") /\ last.kind = "value" =>
        FilledNow(last.val) =
            UNION {FilledBefore(last.args[i]) : i \in 1 .. Len(last.args)}

\* a merge of two different regions, each with pixels of its own
CombineMaskIsUnionWitness ==
    /\ Returned("combine_masks") /\ last.kind = "value"
    /\ Len(last.args) = 2 /\ last.args[1] # last.args[2]
    /\ FilledBefore(last.args[1]) # {} /\ FilledBefore(last.args[2]) # {}
    /\ FilledBefore(last.args[1]) \cap FilledBefore(last.args[2]) = {}

RECURSIVE WeightOf(_, _)
\* the sum of the weights the regions of the first k keys had before the call
WeightOf(keys, k) ==
    IF k = 0 THEN 0
    ELSE WeightOf(keys, k - 1) + Get(last.regions, keys[k]).weight

RECURSIVE Moment(_, _, _)
\* the sum of weight * center[c] over the regions of the first k keys, as they
\* were before the call
Moment(keys, k, c) ==
    IF k = 0 THEN RatOfInt(0)
    ELSE LET r == Get(last.regions, keys[k])
         IN  RatAdd(Moment(keys, k - 1, c),
                    Rat(r.weight * r.center[c][1], r.center[c][2]))

\* C6: after a successful combine_masks over distinct present keys the
\* surviving region's weight is the sum of the input weights and its centre is
\* sum(weight_i * center_i) / sum(weight_i) on each coordinate.
CombineWeightedCenter ==
    Returned("combine_masks") /\ last.kind = "value" /\ Distinct(last.args) =>
        LET n == Len(last.args)
            r == Get(regions, last.val)
        IN  /\ r.weight = WeightOf(last.args, n)
            /\ r.center = << RatDivInt(Moment(last.args, n, 1), WeightOf(last.args, n)),
                             RatDivInt(Moment(last.args, n, 2), WeightOf(last.args, n)) >>

\* a merge of regions of different weights
CombineWeightedCenterWitness ==
    /\ Returned("combine_masks") /\ last.kind = "value" /\ Distinct(last.args)
    /\ Get(last.regions, last.args[1]).weight # Get(last.regions, last.args[2]).weight

\* C7: combine_masks with fewer than two keys, or with a key that is absent
\* from the registry or has no mask file, returns a falsy value instead of
\* raising and leaves regions, region_max and every mask file unchanged.
CombineInvalidReturnsFalsy ==
    Returned("combine_masks")
    /\ (Len(last.args) < 2 \/ ~AllPresent(last.args)) =>
        /\ last.kind = "False"
        /\ regions = last.regions
        /\ region_max = last.region_max
        /\ masks = last.masks

\* C8: after generate_masks has segmented an image into N >= 1 regions,
\* region_max is N, the highest key assigned and the greatest key present.
GenerateSetsRegionMax ==
    Returned("generate_masks") /\ last.kind = "value" /\ Len(last.val) >= 1 =>
        /\ region_max = Some(Len(last.val))
        /\ region_max = Some(MaxKeyOf(regions))

\* a call that returned without raising and without reporting failure
Succeeded == last.kind \in {"value", "None"}

\* C9: combine_masks, delete_masks, prune_masks and sort_regions, started with
\* region_max equal to the greatest key present and returning successfully
\* with a non-empty registry, end with region_max equal to the greatest key
\* present.
MutationsKeepRegionMax ==
    /\ pc = "returned"
    /\ last.op \in {"combine_masks", "delete_masks", "prune_masks", "sort_regions"}
    /\ Succeeded
    /\ last.regions # <<>> /\ last.region_max = Some(MaxKeyOf(last.regions))
    /\ regions # <<>>
    => region_max = Some(MaxKeyOf(regions))

\* C10: prune_masks on a registry of N >= 1 regions ends with the keys 1..N
\* given in increasing order of the old keys, the mask files exactly
\* 1.png..N.png, each holding what the mask of the same region held before,
\* and no rename finds a file at its target name.
PruneRenumbers ==
    Returned("prune_masks") /\ last.regions # <<>> =>
        LET old == SortItems(last.regions)
            N == Len(old)
        IN  /\ last.kind = "value"
            /\ Len(regions) = N
            /\ \A i \in 1 .. N :
                  /\ regions[i].key = i
                  /\ regions[i].region = old[i].region
                  /\ masks.files[MaskFile(i)] = last.masks.files[MaskFile(old[i].key)]
            /\ DOMAIN masks.files = {MaskFile(i) : i \in 1 .. N}
            /\ last.val = {n[1] : n \in DOMAIN last.masks.files} \ Keys(last.regions)
            /\ ~last.collided

\* a prune that deleted a mask and renamed two others down
PruneRenumbersWitness ==
    /\ Returned("prune_masks") /\ last.kind = "value"
    /\ last.val # {}
    /\ Cardinality({i \in 1 .. Len(last.regions) : last.regions[i].key # i}) >= 2

\* C11: sort_regions(fast_sort=True) on N regions ends with the keys 1..N in
\* ascending order of the least y of each region's filled mask pixels; every
\* region of the old registry is found at one new key with its record
\* unchanged and with the mask file its old key had.
SortRenumbers ==
    Returned("sort_regions") /\ last.args = TRUE =>
        LET N == Len(last.regions)
        IN  /\ last.kind = "None"
            /\ Len(regions) = N
            /\ \A i \in 1 .. N : regions[i].key = i
            /\ \A i \in 1 .. N - 1 : TopY(FilledNow(i)) <= TopY(FilledNow(i + 1))
            /\ \A k \in Keys(last.regions) :
                  \E i \in 1 .. N :
                      /\ masks.files[MaskFile(i)] = last.masks.files[MaskFile(k)]
                      /\ regions[i].region = Get(last.regions, k)

\* a sort that moved a region in front of one that had a lower key
SortRenumbersWitness ==
    /\ Returned("sort_regions") /\ last.args = TRUE /\ last.kind = "None"
    /\ \E a, b \in 1 .. Len(last.regions) :
          /\ last.regions[a].key < last.regions[b].key
          /\ TopY(FilledBefore(last.regions[b].key))
                < TopY(FilledBefore(last.regions[a].key))

\* C12: sort_regions(fast_sort=False) raises NotImplementedError and changes
\* neither regions, region_max, data.json nor any mask file.
SortSlowFails ==
    [][pc = "idle" /\ pc' = "returned" /\ last'.op = "sort_regions"
         /\ last'.args = FALSE =>
            /\ last'.kind = "raise" /\ last'.val = "NotImplementedError"
            /\ UNCHANGED <<regions, region_max, data_json, masks>>]_vars

\* the slow ordering was asked for on a registry that the fast one would have
\* renumbered
SortSlowFailsWitness ==
    /\ Returned("sort_regions") /\ last.args = FALSE
    /\ data_json # None
    /\ \E i \in 1 .. Len(regions) : regions[i].key # i

RECURSIVE CoordSum(_, _, _)
\* the sum of the c-th coordinates of a set of pixels, the coordinates being
\* in 0 .. n
CoordSum(S, c, n) ==
    IF n < 0 THEN 0
    ELSE CoordSum(S, c, n - 1) + n * Cardinality({p \in S : p[c] = n})

\* the arithmetic mean of a non-empty set of pixels
MeanOf(S) ==
    << Rat(CoordSum(S, 1, ImgW + 1), Cardinality(S)),
       Rat(CoordSum(S, 2, ImgH + 1), Cardinality(S)) >>

\* the keys a recalculate_region call selects
Selected == IF last.args = None THEN Keys(last.regions) ELSE Elems(last.args[1])

\* C13: after a successful recalculate_region each selected region has for
\* weight the number of filled pixels of its mask file and for centre their
\* arithmetic mean (so one pixel more in the mask is one more in the weight);
\* its data, and the whole record of every other region, are unchanged.
RecalculateFromMask ==
    Returned("recalculate_region") /\ last.kind = "None" =>
        /\ Len(regions) = Len(last.regions)
        /\ \A i \in 1 .. Len(regions) :
              LET k == regions[i].key
                  r == regions[i].region
                  old == last.regions[i]
              IN  /\ k = old.key
                  /\ r.data = old.region.data
                  /\ k \in Selected =>
                        /\ r.weight = Cardinality(FilledNow(k))
                        /\ r.center = MeanOf(FilledNow(k))
                        /\ Cardinality(FilledNow(k)) = old.region.weight + 1
                              => r.weight = old.region.weight + 1
                  /\ k \notin Selected => r = old.region

\* a region recalculated after one pixel was added to its mask, next to a
\* region that was not selected
RecalculateFromMaskWitness ==
    /\ Returned("recalculate_region") /\ last.kind = "None"
    /\ \E k \in Selected :
          /\ Get(regions, k).weight = Get(last.regions, k).weight + 1
          /\ Get(regions, k).center # Get(last.regions, k).center
    /\ Keys(regions) \ Selected # {}

\* a call that returned what its caller takes for success: no exception, no
\* False, and for generate_masks a non-empty mapping
ReturnedSuccess ==
    /\ pc = "returned"
    /\ Succeeded
    /\ last.op = "generate_masks" => last.val # <<>>

\* C14: at each successful return of generate_masks, combine_masks,
\* delete_masks, prune_masks, sort_regions and recalculate_region, data.json
\* exists and load_data of it gives the name, custom, region_max and regions
\* that are in memory: save_data ran after every assignment of the call.
SavedEqualsMemory ==
    ReturnedSuccess =>
        /\ data_json # None
        /\ load_data(data_json[1]) =
              [name |-> name, custom |-> custom, region_max |-> region_max,
               regions |-> SortItems(regions)]

\* a successful call that changed both the registry and region_max
SavedEqualsMemoryWitness ==
    /\ ReturnedSuccess
    /\ last.op # "generate_masks"
    /\ regions # last.regions
    /\ region_max # last.region_max

\* C15: load_data after save_data restores name, custom and region_max, the
\* same set of integer keys, and for every key the same centre, weight and
\* extra named attributes.
LoadRestoresSaved ==
    Returned("load_data") /\ last.kind = "None"
    /\ data_json = Some(save_data(last.args[1], last.args[2], last.region_max,
                                  last.regions)) =>
        /\ name = last.args[1]
        /\ custom = last.args[2]
        /\ region_max = last.region_max
        /\ Keys(regions) = Keys(last.regions)
        /\ Len(regions) = Cardinality(Keys(regions))
        /\ \A k \in Keys(regions) :
              /\ Get(regions, k).center = Get(last.regions, k).center
              /\ Get(regions, k).weight = Get(last.regions, k).weight
              /\ Get(regions, k).data = Get(last.regions, k).data

\* a registry reloaded whose keys were not in increasing order and one of
\* whose regions has an extra named attribute
LoadRestoresSavedWitness ==
    /\ Returned("load_data") /\ last.kind = "None"
    /\ data_json = Some(save_data(last.args[1], last.args[2], last.region_max,
                                  last.regions))
    /\ Len(last.regions) >= 2 /\ last.regions[1].key > last.regions[2].key
    /\ \E i \in 1 .. Len(regions) : regions[i].region.data # <<>>

\* C16: composite_regions returns None for an empty key list; for one key
\* whose mask file exists it returns an image that has the highlight colour
\* at every pixel filled in that mask and the colour of the base image at
\* every other pixel; it never changes regions, region_max or a mask file.
CompositeHighlights ==
    Returned("composite_regions") =>
        /\ regions = last.regions
        /\ region_max = last.region_max
        /\ masks = last.masks
        /\ Len(last.args.regions) = 0 => last.kind = "None"
        /\ Len(last.args.regions) = 1
              /\ MaskFile(last.args.regions[1]) \in DOMAIN masks.files =>
                /\ last.kind = "value"
                /\ last.val.size = blank_png[1].size
                /\ \A p \in DOMAIN blank_png[1].px :
                      last.val.px[p] =
                          IF p \in FilledNow(last.args.regions[1])
                          THEN last.args.color
                          ELSE convert_RGB(blank_png[1].px[p])

\* one region highlighted on a map that has a wall and another region
CompositeHighlightsWitness ==
    /\ Returned("composite_regions") /\ last.kind = "value"
    /\ Len(last.args.regions) = 1
    /\ Len(regions) >= 2
    /\ FilledNow(last.args.regions[1]) # {}
    /\ \E p \in DOMAIN blank_png[1].px : blank_png[1].px[p] = Black

\* the grid a floodfill call was given
Grid == blank_png[1]

\* C17: floodfill returns the empty set and changes no pixel when the seed
\* already has the fill value (colour difference <= thresh) and when the seed
\* coordinate lies outside the grid.
FloodfillNoOp ==
    Returned("floodfill")
    /\ (last.args.xy \notin DOMAIN Grid.px
          \/ color_diff(last.args.value, Grid.px[last.args.xy]) <= last.args.thresh) =>
        /\ last.val.filled = {}
        /\ last.val.image = Grid

RECURSIVE Grow(_, _)
\* the pixels joined to the set S by 4-connected steps through the set open
Grow(S, open) ==
    LET more == S \cup { q \in open : \E p \in S :
                            Abs(p[1] - q[1]) + Abs(p[2] - q[2]) = 1 }
    IN  IF more = S THEN S ELSE Grow(more, open)

\* C20: in border mode, from a seed on the grid that does not already have
\* the fill value, floodfill returns the seed and the pixels reachable from
\* it by 4-connected steps through pixels whose original value is neither the
\* fill value nor the border value; the grid holds the fill value at the
\* returned pixels and its original value everywhere else.
FloodfillBorderReach ==
    Returned("floodfill") /\ last.args.border # None
    /\ last.args.xy \in DOMAIN Grid.px
    /\ color_diff(last.args.value, Grid.px[last.args.xy]) > last.args.thresh =>
        LET open == { p \in DOMAIN Grid.px :
                        Grid.px[p] \notin {last.args.value, last.args.border[1]} }
        IN  /\ last.val.filled = Grow({last.args.xy}, open)
            /\ last.val.image.size = Grid.size
            /\ \A p \in DOMAIN Grid.px :
                  last.val.image.px[p] =
                      IF p \in last.val.filled THEN last.args.value ELSE Grid.px[p]

\* a fill that went round a corner and left an open pixel that touches the
\* region only by a diagonal
FloodfillBorderReachWitness ==
    /\ Returned("floodfill") /\ last.args.border # None
    /\ last.args.xy \in DOMAIN Grid.px
    /\ Cardinality(last.val.filled) >= 3
    /\ \E p \in last.val.filled : \E q \in DOMAIN Grid.px \ last.val.filled :
          /\ Abs(p[1] - q[1]) = 1 /\ Abs(p[2] - q[2]) = 1
          /\ Grid.px[q] \notin {last.args.value, last.args.border[1]}

\* the pixels of an image row by row, with no chunks
RowMajor(size) ==
    [i \in 1 .. size[1] * size[2] |-> <<(i - 1) % size[1], (i - 1) \div size[1]>>]

\* C18: Regioner.execute returns False when blank.png is missing and in no
\* other case; for every existing image, of any width and height, it returns
\* the region mapping without raising, its scan takes every pixel exactly
\* once, and the regions are those a scan without chunks finds.
ExecuteScansEveryImage ==
    Returned("generate_masks") =>
        /\ blank_png = None => last.kind = "False"
        /\ blank_png # None =>
              LET size == blank_png[1].size
                  order == ScanOrder(size)
              IN  /\ last.kind = "value"
                  /\ Len(order) = size[1] * size[2]
                  /\ \A p \in Pixels(size) : \E i \in 1 .. Len(order) : order[i] = p
                  /\ last.val = scan(RowMajor(size), 1, blank_png[1], {}, 0, <<>>,
                                     NoFiles).regions

\* C19: delete_masks with a non-empty list of distinct keys that are all in
\* the registry, the list of all keys included, returns the list, removes
\* exactly those keys, leaves the records of the other regions as they were
\* and changes no mask file.
DeletePresentSucceeds ==
    Returned("delete_masks") /\ Len(last.args) >= 1 /\ Distinct(last.args)
    /\ Elems(last.args) \subseteq Keys(last.regions) =>
        /\ last.kind = "value"
        /\ last.val = last.args
        /\ Keys(regions) = Keys(last.regions) \ Elems(last.args)
        /\ \A k \in Keys(regions) : Get(regions, k) = Get(last.regions, k)
        /\ masks = last.masks

\* the place in a row-by-row scan of the first pixel of a non-empty set
FirstScanned(S, size) ==
    LET at == {p[2] * size[1] + p[1] : p \in S}
    IN  CHOOSE n \in at : \A m \in at : n <= m

\* C21: Regioner.execute gives the regions the keys 1..N in the order in
\* which a row-by-row scan meets their first pixel; each region has for
\* weight the number of filled pixels of the mask saved under its key, which
\* is positive, and for centre the mean of those pixels, which lies on the
\* image.
ExecuteKeysAndRecords ==
    Returned("generate_masks") /\ last.kind = "value" =>
        LET size == blank_png[1].size
        IN  /\ \A i \in 1 .. Len(last.val) :
                  LET r == last.val[i].region
                      filled == FilledNow(i)
                  IN  /\ last.val[i].key = i
                      /\ r.weight = Cardinality(filled)
                      /\ r.weight > 0
                      /\ r.center = MeanOf(filled)
                      /\ 0 <= r.center[1][1]
                      /\ r.center[1][1] <= (size[1] - 1) * r.center[1][2]
                      /\ 0 <= r.center[2][1]
                      /\ r.center[2][1] <= (size[2] - 1) * r.center[2][2]
            /\ \A i \in 1 .. Len(last.val) - 1 :
                  FirstScanned(FilledNow(i), size) < FirstScanned(FilledNow(i + 1), size)

\* a run that found three regions or more, not all of one weight, one of
\* them with a centre that is not a pixel
ExecuteKeysAndRecordsWitness ==
    /\ Returned("generate_masks") /\ last.kind = "value"
    /\ Len(last.val) >= 3
    /\ \E i, j \in 1 .. Len(last.val) :
          last.val[i].region.weight # last.val[j].region.weight
    /\ \E i \in 1 .. Len(last.val) : last.val[i].region.center[1][2] # 1

\* C22: when the label overlays are redrawn, the text drawn for a region is
\* the name in its attribute bag when it has one, and its numeric key only
\* when it has none.
LabelIsNameOrKey ==
    Returned("create_number_mask") /\ last.kind = "value" =>
        /\ numbers_png # None
        /\ Len(numbers_png[1]) = Len(regions)
        /\ \A i \in 1 .. Len(regions) :
              numbers_png[1][i].text =
                  IF "name" \in DOMAIN regions[i].region.data
                  THEN regions[i].region.data["name"]
                  ELSE str(regions[i].key)

\* C23: in every state reached from generate_masks by calls made one after
\* another, the merges over distinct keys, every registered region has a mask
\* file, its weight is the number of filled pixels of that mask and its centre
\* is their mean; so a recalculate_region that returns has changed no region.
RecordsMatchMasks ==
    /\ \A i \in 1 .. Len(regions) :
          LET k == regions[i].key
              r == regions[i].region
          IN  /\ MaskFile(k) \in DOMAIN masks.files
              /\ r.weight = Cardinality(FilledNow(k))
              /\ r.weight > 0
              /\ r.center = MeanOf(FilledNow(k))
    /\ (Returned("recalculate_region") /\ last.kind = "None" =>
            regions = last.regions)

\* a recalculation of every region has returned on a registry of two or more
\* regions, one with a fractional centre, after a key below region_max has
\* left the registry
RecordsMatchMasksWitness ==
    /\ Returned("recalculate_region") /\ last.kind = "None"
    /\ last.args = None
    /\ Len(regions) >= 2
    /\ region_max # None /\ region_max[1] > Len(regions) + 1
    /\ \E i \in 1 .. Len(regions) : regions[i].region.center[1][2] # 1

====
